---------------------------- MODULE Spec2Model ----------------------------
(***************************************************************************)
(* Model of the two SageMaker inference handler scripts                    *)
(*                                                                         *)
(*   src/Pytorch BYOM from NGC/transform_script.py      ("local" variant)  *)
(*   src/Pytorch BYOM from NGC/transform_script_hub.py  ("hub" variant)    *)
(*                                                                         *)
(* Each script defines model_fn and input_fn.  A hosting runtime imports   *)
(* the script and calls the two functions.  The state is the environment   *)
(* the handlers read (the file system under the model directories, the     *)
(* reachability of the model hub, the availability of the requested        *)
(* device), the module globals of each script, the model instance the      *)
(* runtime holds, the frames of the calls in flight, and the record of     *)
(* completed calls.                                                        *)
(*                                                                         *)
(* torch.load, torch.hub.load, BytesIO and os.path.join are library code:  *)
(* they are modelled by what they do (a serialised stream is parsed, a     *)
(* file is looked up, a hub entry point is fetched), at the call sites of  *)
(* the scripts.                                                            *)
(***************************************************************************)
EXTENDS Integers, Sequences, FiniteSets, TLC

VARIABLES
    fs,        \* file system: path -> "absent" | "valid" | "corrupt"
    hubUp,     \* the model hub can be reached
    gpuOK,     \* the device named by map_location can be used
    globals,   \* module-level variables of each script written by handlers
    model,     \* the model instance the runtime holds (last successful load)
    threads,   \* frames of the input_fn calls in flight, one per worker
    last,      \* record of the call that completed last
    seen       \* record of some earlier completed call (history variable)

vars == <<fs, hubUp, gpuOK, globals, model, threads, last, seen>>

(***************************************************************************)
(* Bounds and input sets                                                   *)
(***************************************************************************)
\* longest tensor that is serialised into a request body
MaxLen == 2

Variants == {"local", "hub"}

\* values of tensor elements
Elem == {0, 1}

Tensors == UNION {[1..n -> Elem] : n \in 0..MaxLen}

\* content types a request can declare: the recognised one, another type,
\* one differing only in case, one carrying an extra parameter
PICKLE == "application/python-pickle"

CTypes == {PICKLE, "text/plain", "Application/Python-Pickle",
           "application/python-pickle; charset=utf-8"}

ModelDirs == {"/opt/ml/model", "/tmp/other"}

WEIGHTS == "nvidia_ssdpyt_fp32_190826.pt"

\* another file of the first model directory, always present
Decoy == <<"/opt/ml/model", "model.pth">>

FileStates == {"absent", "valid", "corrupt"}

(***************************************************************************)
(* Values a call ends with: a tensor, a model, None, or a raised error     *)
(***************************************************************************)
TensorVal(t) == [kind |-> "tensor", tensor |-> t, model |-> <<>>, err |-> ""]

ModelVal(m) == [kind |-> "model", tensor |-> <<>>, model |-> m, err |-> ""]

NoneVal == [kind |-> "none", tensor |-> <<>>, model |-> <<>>, err |-> ""]

Raise(e) == [kind |-> "error", tensor |-> <<>>, model |-> <<>>, err |-> e]

(***************************************************************************)
(* Library: os.path.join, BytesIO, torch.save / torch.load on a stream,    *)
(* torch.load on a file, torch.hub.load                                    *)
(***************************************************************************)
OsPathJoin(dir, name) == <<dir, name>>

\* the paths whose files come and go
Paths == {OsPathJoin(d, WEIGHTS) : d \in ModelDirs}

BytesIO(bytes) == [buf |-> bytes, pos |-> 0]

\* The serialised form of a tensor: a protocol marker, the element count,
\* the elements.
TorchSave(t) == <<2, Len(t)>> \o t

\* Parse a stream from its position: the marker and the count must match
\* what follows, else the load raises.
TorchLoad(stream) ==
    LET b == SubSeq(stream.buf, stream.pos + 1, Len(stream.buf))
    IN  IF /\ Len(b) >= 2
           /\ b[1] = 2
           /\ b[2] = Len(b) - 2
           /\ \A i \in 3..Len(b) : b[i] \in Elem
        THEN TensorVal(SubSeq(b, 3, Len(b)))
        ELSE Raise("UnpicklingError")

\* torch.load on a path: open() fails on a missing file, unpickling fails
\* on a corrupt one.
TorchLoadFile(path, files) ==
    IF path \notin DOMAIN files \/ files[path] = "absent"
    THEN Raise("FileNotFoundError")
    ELSE IF files[path] = "corrupt"
         THEN Raise("UnpicklingError")
         ELSE ModelVal(<<"file", path[1], path[2]>>)

\* entry points the hub repository publishes
HubCatalog == {<<"NVIDIA/DeepLearningExamples:torchhub", "nvidia_ssd">>,
               <<"NVIDIA/DeepLearningExamples:torchhub", "nvidia_tacotron2">>}

\* torch.hub.load: fetch the repository, look the entry point up, build the
\* model in the requested precision on the requested device.
TorchHubLoad(repo, arch, model_math, map_location, up, deviceOK) ==
    IF ~up
    THEN Raise("HubUnreachable")
    ELSE IF <<repo, arch>> \notin HubCatalog
         THEN Raise("RuntimeError")
         ELSE IF ~deviceOK
              THEN Raise("DeviceUnavailable")
              ELSE ModelVal(<<"hub", repo, arch, model_math, map_location>>)

(***************************************************************************)
(* Compilation of a script.  Python joins lines while a bracket is open;   *)
(* a script whose brackets are still open at the end of the file is        *)
(* rejected with a SyntaxError when it is imported.  FileBrackets lists    *)
(* the bracket tokens of each script in order.                             *)
(***************************************************************************)
FileBrackets(v) ==
    IF v = "local"
    THEN <<"(", ")",             \* line 7   def model_fn(model_dir):
           "(", "(", ")",        \* line 8   torch.load(os.path.join(..., '...')
           "(", ")",             \* line 11  def input_fn(...):
           "(", "(", ")", ")">>  \* line 14  torch.load(BytesIO(request_body))
    ELSE <<"(", ")",             \* line 7   def model_fn(model_dir):
           "(", ")",             \* line 8   torch.hub.load(...)
           "(", ")",             \* line 11  def input_fn(...):
           "(", "(", ")", ")">>  \* line 12  torch.load(BytesIO(request_body))

RECURSIVE Depth(_)
Depth(toks) ==
    IF toks = <<>>
    THEN 0
    ELSE Depth(SubSeq(toks, 1, Len(toks) - 1))
         + (IF toks[Len(toks)] = "(" THEN 1 ELSE -1)

\* Whether the brackets of a token sequence close: never more closed than
\* opened, and none open at the end.
Balanced(toks) ==
    /\ \A n \in 0..Len(toks) : Depth(SubSeq(toks, 1, n)) >= 0
    /\ Depth(toks) = 0

\* The compiler's verdict on each script, reached once, at import.
Compiled == [v \in Variants |-> Balanced(FileBrackets(v))]

ModuleCompiles(v) == Compiled[v]

(***************************************************************************)
(* The handlers.  Each yields the value the call ends with, the number of  *)
(* model loads and of request deserialisations it performed, and the       *)
(* module globals after the call.                                          *)
(***************************************************************************)
Outcome(r, nLoads, nDecodes, g) ==
    [ret |-> r, modelLoads |-> nLoads, decodes |-> nDecodes, globals |-> g]

\* transform_script.py: model_fn
model_fn_local(model_dir, env, g) ==
    LET m == TorchLoadFile(OsPathJoin(model_dir, "nvidia_ssdpyt_fp32_190826.pt"),
                           env.fs)
    IN  Outcome(m, 1, 0, g)

\* transform_script.py: input_fn
input_fn_local(request_body, request_content_type, g) ==
    IF request_content_type = "application/python-pickle"
    THEN Outcome(TorchLoad(BytesIO(request_body)), 0, 1, g)
    ELSE Outcome(NoneVal, 0, 0, g)

\* A loader that asks the hub for another entry point.
model_fn_hub_wrongArch(model_dir, env, g) ==
    LET m == TorchHubLoad("NVIDIA/DeepLearningExamples:torchhub", "nvidia_tacotron2",
                          "fp32", "gpu", env.hubUp, env.gpuOK)
    IN  Outcome(m, 1, 0, g)

\* transform_script_hub.py: model_fn
model_fn_hub(model_dir, env, g) ==
    LET m == TorchHubLoad("NVIDIA/DeepLearningExamples:torchhub", "nvidia_ssd",
                          "fp32", "gpu", env.hubUp, env.gpuOK)
    IN  Outcome(m, 1, 0, g)

\* A decoder that dispatches on the content type, as the other script does.
input_fn_hub_typed(request_body, request_content_type, g) ==
    IF request_content_type = "application/python-pickle"
    THEN Outcome(TorchLoad(BytesIO(request_body)), 0, 1, g)
    ELSE Outcome(NoneVal, 0, 0, g)

\* A decoder that keeps the first tensor it decoded in a module global and
\* answers later requests from it.
input_fn_hub_cached(request_body, request_content_type, g) ==
    IF g = {}
    THEN LET r == TorchLoad(BytesIO(request_body))
         IN  Outcome(r, 0, 1, IF r.kind = "tensor" THEN {r} ELSE g)
    ELSE Outcome(CHOOSE r \in g : TRUE, 0, 0, g)

\* transform_script_hub.py: input_fn
input_fn_hub(request_body, request_content_type, g) ==
    Outcome(TorchLoad(BytesIO(request_body)), 0, 1, g)

\* Importing a script that does not compile raises SyntaxError: none of its
\* functions is ever defined, and nothing of the script runs.
ImportFails(g) == Outcome(Raise("SyntaxError"), 0, 0, g)

\* The runtime imports the script of the variant and calls its model_fn.
CallModelFn(v, model_dir, env, g) ==
    IF ~ModuleCompiles(v)
    THEN ImportFails(g)
    ELSE IF v = "local"
         THEN model_fn_local(model_dir, env, g)
         ELSE model_fn_hub(model_dir, env, g)

\* The runtime imports the script of the variant and calls its input_fn.
CallInputFn(v, request_body, request_content_type, g) ==
    IF ~ModuleCompiles(v)
    THEN ImportFails(g)
    ELSE IF v = "local"
         THEN input_fn_local(request_body, request_content_type, g)
         ELSE input_fn_hub(request_body, request_content_type, g)

(***************************************************************************)
(* Request bodies: the serialisation of every tensor, and corrupt bodies   *)
(* derived from them (marker dropped, last byte dropped, empty).           *)
(***************************************************************************)
ValidBodies == {TorchSave(t) : t \in Tensors}

Bodies ==
    ValidBodies
    \cup {Tail(b) : b \in ValidBodies}
    \cup {SubSeq(b, 1, Len(b) - 1) : b \in ValidBodies}
    \cup {<<>>}

(***************************************************************************)
(* Records of completed calls                                              *)
(***************************************************************************)
Env == [fs |-> fs, hubUp |-> hubUp, gpuOK |-> gpuOK]

NoCall ==
    [fn |-> "none", variant |-> "none", dir |-> "", body |-> <<>>, ctype |-> "",
     file |-> "-", hub |-> FALSE, gpu |-> FALSE,
     ret |-> NoneVal, modelLoads |-> 0, decodes |-> 0]

\* A model_fn call: its argument, the part of the environment its variant
\* reads (the weights file of the directory, or the hub and the device) at
\* the time of the call, and how it ended.
ModelRec(v, dir, env, out) ==
    [fn |-> "model_fn", variant |-> v, dir |-> dir, body |-> <<>>, ctype |-> "",
     file |-> IF v = "local" THEN env.fs[<<dir, WEIGHTS>>] ELSE "-",
     hub |-> IF v = "hub" THEN env.hubUp ELSE FALSE,
     gpu |-> IF v = "hub" THEN env.gpuOK ELSE FALSE,
     ret |-> out.ret, modelLoads |-> out.modelLoads, decodes |-> out.decodes]

\* An input_fn call: its arguments and how it ended.
InputRec(v, body, ctype, out) ==
    [fn |-> "input_fn", variant |-> v, dir |-> "", body |-> body, ctype |-> ctype,
     file |-> "-", hub |-> FALSE, gpu |-> FALSE,
     ret |-> out.ret, modelLoads |-> out.modelLoads, decodes |-> out.decodes]

Threads == {"w1", "w2"}

Idle == [pc |-> "idle", variant |-> "none", body |-> <<>>, ctype |-> ""]

(***************************************************************************)
(* Initial state: no weights file present, hub and device usable, nothing   *)
(* called                                                                  *)
(***************************************************************************)
Init ==
    /\ fs = [p \in Paths \cup {Decoy} |-> IF p = Decoy THEN "valid" ELSE "absent"]
    /\ hubUp = TRUE
    /\ gpuOK = TRUE
    /\ globals = [v \in Variants |-> {}]
    /\ model = <<>>
    /\ threads = [t \in Threads |-> Idle]
    /\ last = NoCall
    /\ seen = NoCall

(***************************************************************************)
(* Actions                                                                 *)
(***************************************************************************)
\* The runtime calls model_fn(model_dir) and keeps the model it returns.
\* remember: the history variable takes the previous record.
ModelFn(v, dir, remember) ==
    LET out == CallModelFn(v, dir, Env, globals[v])
    IN  /\ last' = ModelRec(v, dir, Env, out)
        /\ seen' = IF remember THEN last ELSE seen
        /\ globals' = [globals EXCEPT ![v] = out.globals]
        /\ model' = IF out.ret.kind = "model" THEN out.ret.model ELSE model
        /\ UNCHANGED <<fs, hubUp, gpuOK, threads>>

\* The runtime calls input_fn(request_body, request_content_type) and the
\* call runs to its end.
InputFn(v, body, ctype) ==
    LET out == CallInputFn(v, body, ctype, globals[v])
    IN  /\ last' = InputRec(v, body, ctype, out)
        /\ globals' = [globals EXCEPT ![v] = out.globals]
        /\ UNCHANGED <<fs, hubUp, gpuOK, model, threads, seen>>

\* A worker enters input_fn: the arguments are bound in its frame.
Call(t, v, body, ctype) ==
    /\ threads[t].pc = "idle"
    /\ threads' = [threads EXCEPT ![t] =
                      [pc |-> "called", variant |-> v, body |-> body, ctype |-> ctype]]
    /\ UNCHANGED <<fs, hubUp, gpuOK, globals, model, last, seen>>

\* A worker's input_fn call runs its body and returns.
Return(t, remember) ==
    /\ threads[t].pc = "called"
    /\ LET f == threads[t]
           out == CallInputFn(f.variant, f.body, f.ctype, globals[f.variant])
       IN  /\ last' = InputRec(f.variant, f.body, f.ctype, out)
           /\ seen' = IF remember THEN last ELSE seen
           /\ globals' = [globals EXCEPT ![f.variant] = out.globals]
    /\ threads' = [threads EXCEPT ![t] = Idle]
    /\ UNCHANGED <<fs, hubUp, gpuOK, model>>

\* The environment: a file appears, is damaged or disappears.
EnvFs(p, s) ==
    /\ fs[p] # s
    /\ fs' = [fs EXCEPT ![p] = s]
    /\ UNCHANGED <<hubUp, gpuOK, globals, model, threads, last, seen>>

\* The environment: the hub becomes reachable or unreachable.
EnvHub ==
    /\ hubUp' = ~hubUp
    /\ UNCHANGED <<fs, gpuOK, globals, model, threads, last, seen>>

\* The environment: the requested device becomes usable or unusable.
EnvGpu ==
    /\ gpuOK' = ~gpuOK
    /\ UNCHANGED <<fs, hubUp, globals, model, threads, last, seen>>

(***************************************************************************)
(* Spec: calls one at a time, over every body, content type and directory  *)
(***************************************************************************)
Next ==
    \/ \E v \in Variants, d \in ModelDirs : ModelFn(v, d, FALSE)
    \/ \E v \in Variants, b \in Bodies, c \in CTypes : InputFn(v, b, c)
    \/ \E p \in Paths, s \in FileStates : EnvFs(p, s)
    \/ EnvHub
    \/ EnvGpu

Spec == Init /\ [][Next]_vars

(***************************************************************************)
(* PairSpec: input_fn calls of two workers interleave with each other,     *)
(* with model_fn calls and with environment changes; the history variable  *)
(* keeps an arbitrary earlier call beside the last one.                    *)
(***************************************************************************)
PairBodies == {TorchSave(<<1>>), Tail(TorchSave(<<1>>))}

PairCTypes == {PICKLE, "text/plain", "Application/Python-Pickle"}

PairDir == "/opt/ml/model"

PairNext ==
    \/ \E v \in Variants, r \in BOOLEAN : ModelFn(v, PairDir, r)
    \/ \E t \in Threads, v \in Variants, b \in PairBodies, c \in PairCTypes :
          Call(t, v, b, c)
    \/ \E t \in Threads, r \in BOOLEAN : Return(t, r)
    \/ \E s \in FileStates : EnvFs(<<PairDir, WEIGHTS>>, s)
    \/ EnvHub

PairSpec == Init /\ [][PairNext]_vars

(***************************************************************************)
(* Properties                                                              *)
(***************************************************************************)
IsInput(r) == r.fn = "input_fn"

IsModel(r) == r.fn = "model_fn"

\* Two records are of the same call: same function, same script, same
\* arguments, same environment read.
SameKey(r1, r2) ==
    /\ r1.fn = r2.fn
    /\ r1.variant = r2.variant
    /\ r1.dir = r2.dir
    /\ r1.body = r2.body
    /\ r1.ctype = r2.ctype
    /\ r1.file = r2.file
    /\ r1.hub = r2.hub
    /\ r1.gpu = r2.gpu

SameOutcome(r1, r2) ==
    /\ r1.ret = r2.ret
    /\ r1.modelLoads = r2.modelLoads
    /\ r1.decodes = r2.decodes

HubModel == <<"hub", "NVIDIA/DeepLearningExamples:torchhub", "nvidia_ssd", "fp32", "gpu">>

\* C1: in both variants, input_fn called with the serialisation of a tensor t
\* and the content type 'application/python-pickle' returns a tensor equal
\* to t.
C1_RoundTrip ==
    \A t \in Tensors :
        (IsInput(last) /\ last.ctype = PICKLE /\ last.body = TorchSave(t))
            => last.ret = TensorVal(t)

\* C2: for every body and every content type other than
\* 'application/python-pickle', input_fn ends in an error and returns no
\* value.  (Stated for any error, whatever its class.)
C2_UnsupportedTypeRaises ==
    (IsInput(last) /\ last.ctype # PICKLE) => last.ret.kind = "error"

\* C3: in the local-file variant, for every body and every content type that
\* is not exactly 'application/python-pickle', input_fn raises nothing,
\* attempts no deserialisation and returns None.
C3_LocalOtherTypeReturnsNone ==
    (IsInput(last) /\ last.variant = "local" /\ last.ctype # PICKLE)
        => (last.ret = NoneVal /\ last.decodes = 0)

\* C4: in the hub variant, two input_fn calls with the same body end the
\* same way whatever their content types are, and each attempts the
\* deserialisation.
C4_HubIgnoresContentType ==
    (/\ IsInput(seen) /\ IsInput(last)
     /\ seen.variant = "hub" /\ last.variant = "hub"
     /\ seen.body = last.body)
        => (seen.ret = last.ret /\ seen.decodes = 1 /\ last.decodes = 1)

\* C4 witness: the same well-formed body decoded under the recognised content
\* type and under another one.
C4_Witness ==
    /\ IsInput(seen) /\ IsInput(last)
    /\ seen.variant = "hub" /\ last.variant = "hub"
    /\ seen.body = last.body
    /\ seen.ctype = PICKLE /\ last.ctype = "text/plain"
    /\ last.ret.kind = "tensor"

\* C5: in the local-file variant, model_fn on a directory that holds a valid
\* file 'nvidia_ssdpyt_fp32_190826.pt' loads exactly that file, once, and
\* returns the model.
C5_LocalLoaderSucceeds ==
    (IsModel(last) /\ last.variant = "local" /\ last.file = "valid")
        => (last.ret = ModelVal(<<"file", last.dir, WEIGHTS>>) /\ last.modelLoads = 1)

\* C6: a failure of the underlying load reaches the caller as that error: a
\* missing weights file ends the local model_fn in a file-not-found error, a
\* corrupt one in the deserialiser's error, an unreachable hub or an unusable
\* device ends the hub model_fn in the hub loader's error.
C6_LoaderFailuresPropagate ==
    IsModel(last) =>
        /\ (last.variant = "local" /\ last.file = "absent")
               => last.ret = Raise("FileNotFoundError")
        /\ (last.variant = "local" /\ last.file = "corrupt")
               => last.ret = Raise("UnpicklingError")
        /\ (last.variant = "hub" /\ ~last.hub)
               => last.ret = Raise("HubUnreachable")
        /\ (last.variant = "hub" /\ last.hub /\ ~last.gpu)
               => last.ret = Raise("DeviceUnavailable")

\* C7: the hub model_fn asks the repository 'NVIDIA/DeepLearningExamples:torchhub'
\* for 'nvidia_ssd' in 'fp32' on the device 'gpu', once: it returns that model
\* when the hub is reachable and the device usable, and fails with the
\* device error when the hub is reachable and the device is not usable.
C7_HubLoader ==
    (IsModel(last) /\ last.variant = "hub") =>
        /\ last.modelLoads = 1
        /\ (last.hub /\ last.gpu) => last.ret = ModelVal(HubModel)
        /\ (last.hub /\ ~last.gpu) => last.ret = Raise("DeviceUnavailable")
        /\ ~last.hub => last.ret.kind = "error"

\* C7 witness: the hub model_fn has returned the model once, and a later call
\* has failed on the device.
C7_Witness ==
    /\ IsModel(last) /\ last.variant = "hub"
    /\ last.ret = Raise("DeviceUnavailable")
    /\ model = HubModel

\* C8: whatever was called before and whatever is in flight, two calls of the
\* same function with the same arguments under the same environment end the
\* same way, and no call writes a module global.
C8_Stateless ==
    /\ (seen.fn # "none" /\ SameKey(seen, last)) => SameOutcome(seen, last)
    /\ \A v \in Variants : globals[v] = {}

\* C8 witness: the same request decoded twice, with a model_fn call done and
\* another worker's call for a different request in flight.
C8_Witness ==
    /\ IsInput(seen) /\ SameKey(seen, last)
    /\ last.variant = "hub" /\ last.ret.kind = "tensor"
    /\ model # <<>>
    /\ \E t \in Threads : threads[t].pc = "called" /\ threads[t].body # last.body

\* C9: every invocation of model_fn makes exactly one load attempt, and no
\* invocation of input_fn makes one.
C9_OneLoadPerInvocation ==
    /\ IsModel(last) => last.modelLoads = 1
    /\ IsInput(last) => last.modelLoads = 0

\* C10: for every body, the local input_fn called with
\* 'application/python-pickle' ends as the hub input_fn does with any content
\* type; with any other content type the local input_fn returns None.
C10_VariantsAgreeOnPickle ==
    /\ (/\ IsInput(seen) /\ IsInput(last)
        /\ seen.variant = "local" /\ seen.ctype = PICKLE
        /\ last.variant = "hub" /\ seen.body = last.body)
           => seen.ret = last.ret
    /\ (IsInput(last) /\ last.variant = "local" /\ last.ctype # PICKLE)
           => last.ret.kind = "none"

====
